---- MODULE Spec2Model ----
(***************************************************************************)
(* Model of assets/site.js: the footer year stamper (setYear) and the      *)
(* navigation highlighter (markActiveNav), and the script's top level,     *)
(* which calls them in that order.                                         *)
(*                                                                         *)
(* Strings are sequences of one-character strings, so that the regular     *)
(* expression /\/index\.html$/ and the number-to-text conversion of        *)
(* textContent are computed character by character.                        *)
(***************************************************************************)
EXTENDS Integers, Sequences, FiniteSets

VARIABLES
    pathname,     \* location.pathname
    anchors,      \* the elements matched by '.nav a', in document order
    y,            \* the element with id 'y' (exists = FALSE: getElementById gives null)
    now,          \* the local date the system clock shows
    threw,        \* TRUE once an exception has propagated out of a routine
    pc,           \* position in the script's top level
    yearCalls,    \* number of setYear invocations so far
    navCalls,     \* number of markActiveNav invocations so far
    sinceChange   \* markActiveNav invocations since the path or a link target last changed

vars == <<pathname, anchors, y, now, threw, pc, yearCalls, navCalls, sinceChange>>

-----------------------------------------------------------------------------
(* Bounds                                                                  *)

MaxAnchors == 2
MaxDepth == 3
MaxCalls == 2

-----------------------------------------------------------------------------
(* Strings                                                                 *)

Empty == <<>>
Slash == <<"/">>
IndexHtml == <<"i", "n", "d", "e", "x", ".", "h", "t", "m", "l">>
Blog == <<"b", "l", "o", "g">>
Active == "active"

EndsWith(s, suffix) ==
    /\ Len(s) >= Len(suffix)
    /\ SubSeq(s, Len(s) - Len(suffix) + 1, Len(s)) = suffix

StartsWith(s, prefix) ==
    /\ Len(s) >= Len(prefix)
    /\ SubSeq(s, 1, Len(prefix)) = prefix

DropLast(s, n) == SubSeq(s, 1, Len(s) - n)

\* first position at which `piece` occurs in s, 0 when it does not occur
IndexOf(s, piece) ==
    LET hits == {i \in 1..(Len(s) - Len(piece) + 1) :
                    SubSeq(s, i, i + Len(piece) - 1) = piece}
    IN  IF hits = {} THEN 0 ELSE CHOOSE i \in hits : \A j \in hits : i <= j

DigitChar(d) == <<"0", "1", "2", "3", "4", "5", "6", "7", "8", "9">>[d + 1]

RECURSIVE ToString(_)
\* Number-to-string conversion of a non-negative integer (textContent = number)
ToString(n) ==
    IF n < 10 THEN <<DigitChar(n)>>
    ELSE Append(ToString(n \div 10), DigitChar(n % 10))

-----------------------------------------------------------------------------
(* Values a page can hold                                                  *)

Segs == {Blog, IndexHtml}

RECURSIVE SegSeqs(_)
SegSeqs(n) ==
    IF n = 0 THEN {<<>>}
    ELSE LET shorter == SegSeqs(n - 1)
         IN  shorter \cup {Append(ss, g) : ss \in shorter, g \in Segs}

RECURSIVE Join(_)
\* "/seg1/seg2...": every segment preceded by a slash
Join(ss) == IF ss = <<>> THEN Empty ELSE Slash \o Head(ss) \o Join(Tail(ss))

\* absolute paths of at most MaxDepth segments, with and without trailing slash
DeepPaths ==
    {Join(ss) \o Slash : ss \in SegSeqs(MaxDepth)}
        \cup {Join(ss) : ss \in SegSeqs(MaxDepth) \ {<<>>}}

\* link targets as written in the markup: absolute, or relative (no leading slash)
DeepHrefs == DeepPaths \cup {Tail(p) : p \in DeepPaths}

SamplePaths ==
    {Slash, Slash \o IndexHtml, Slash \o Blog \o Slash,
     Slash \o Blog \o Slash \o IndexHtml}

\* the sample paths, the empty target and the relative target "index.html"
SampleHrefs == SamplePaths \cup {Empty, IndexHtml}

ClassLists == {{}, {Active}}

NoHref(classList) == [hasHref |-> FALSE, href |-> Empty, classList |-> classList]
Anchor(href, classList) == [hasHref |-> TRUE, href |-> href, classList |-> classList]

AnchorsOver(hrefs, classLists) ==
    {NoHref(c) : c \in classLists} \cup {Anchor(h, c) : h \in hrefs, c \in classLists}

NoElement == [exists |-> FALSE, textContent |-> Empty]
Element(text) == [exists |-> TRUE, textContent |-> text]

YElements == {NoElement, Element(Empty), Element(<<"2", "0", "2", "0">>)}

Dates ==
    {[year |-> 1999, month |-> 11, date |-> 31],
     [year |-> 2000, month |-> 0, date |-> 1],
     [year |-> 2026, month |-> 10, date |-> 5]}

-----------------------------------------------------------------------------
(* The document as the routines see it                                     *)

Doc ==
    [pathname |-> pathname, anchors |-> anchors, y |-> y, now |-> now, threw |-> threw]

-----------------------------------------------------------------------------
(* setYear (site.js lines 1-4)                                             *)

getElementById(doc) == doc.y

\* Date.prototype.getYear: the year minus 1900
getYear(d) == d.year - 1900

\* Date.prototype.getFullYear: the calendar year of the local date
getFullYear(d) == d.year

\* y.textContent = value; a property write on null is a TypeError
setTextContent(doc, el, text) ==
    IF el.exists
    THEN [doc EXCEPT !.y = [exists |-> TRUE, textContent |-> text]]
    ELSE [doc EXCEPT !.threw = TRUE]

\* setYear without the null check of line 3
setYearNoGuard(doc) ==
    LET el == getElementById(doc)
    IN  setTextContent(doc, el, ToString(getFullYear(doc.now)))

setYear(doc) ==
    LET el == getElementById(doc)
    IN  IF el.exists
        THEN setTextContent(doc, el, ToString(getFullYear(doc.now)))
        ELSE doc

-----------------------------------------------------------------------------
(* markActiveNav (site.js lines 5-13)                                      *)

Null == [isNull |-> TRUE, str |-> Empty]
Str(s) == [isNull |-> FALSE, str |-> s]

\* a.getAttribute('href'): the attribute as written, null when absent
getAttribute(a) == IF a.hasHref THEN Str(a.href) ELSE Null

\* !href is true of null and of the empty string
Truthy(v) == ~v.isNull /\ v.str # Empty

IndexSuffix == Slash \o IndexHtml

\* the pattern without its end anchor: the first occurrence is replaced
replaceUnanchored(v) ==
    IF v.isNull THEN [threw |-> TRUE, str |-> Empty]
    ELSE LET i == IndexOf(v.str, IndexSuffix)
         IN  IF i = 0 THEN [threw |-> FALSE, str |-> v.str]
             ELSE [threw |-> FALSE,
                   str |-> SubSeq(v.str, 1, i - 1) \o Slash
                             \o SubSeq(v.str, i + Len(IndexSuffix), Len(v.str))]

\* the replacement '' in place of '/'
replaceWithEmpty(v) ==
    IF v.isNull THEN [threw |-> TRUE, str |-> Empty]
    ELSE IF EndsWith(v.str, IndexSuffix)
         THEN [threw |-> FALSE, str |-> DropLast(v.str, Len(IndexSuffix))]
         ELSE [threw |-> FALSE, str |-> v.str]

\* v.replace(/\/index\.html$/, '/'); a method call on null is a TypeError
replace(v) ==
    IF v.isNull THEN [threw |-> TRUE, str |-> Empty]
    ELSE IF EndsWith(v.str, IndexSuffix)
         THEN [threw |-> FALSE, str |-> DropLast(v.str, Len(IndexSuffix)) \o Slash]
         ELSE [threw |-> FALSE, str |-> v.str]

\* const here = location.pathname.replace(...)
here(doc) == replace(Str(doc.pathname)).str

\* classList.toggle(c)
classListToggle(a, c) ==
    [a EXCEPT !.classList = IF c \in @ THEN @ \ {c} ELSE @ \cup {c}]

\* classList.add(c)
classListAdd(a, c) == [a EXCEPT !.classList = @ \cup {c}]

\* the callback with startsWith in place of ===
callbackPrefix(a, h) ==
    LET href == getAttribute(a)
    IN  IF ~Truthy(href) THEN [a |-> a, threw |-> FALSE]
        ELSE LET norm == replace(href)
             IN  IF norm.threw THEN [a |-> a, threw |-> TRUE]
                 ELSE IF StartsWith(h, norm.str)
                      THEN [a |-> classListAdd(a, Active), threw |-> FALSE]
                      ELSE [a |-> a, threw |-> FALSE]

\* the callback without the early return of line 9
callbackNoGuard(a, h) ==
    LET href == getAttribute(a)
        norm == replace(href)
    IN  IF norm.threw THEN [a |-> a, threw |-> TRUE]
        ELSE IF norm.str = h
             THEN [a |-> classListAdd(a, Active), threw |-> FALSE]
             ELSE [a |-> a, threw |-> FALSE]

\* the callback storing the normalized target back into the attribute
callbackRewriteHref(a, h) ==
    LET href == getAttribute(a)
    IN  IF ~Truthy(href) THEN [a |-> a, threw |-> FALSE]
        ELSE LET norm == replace(href)
             IN  IF norm.threw THEN [a |-> a, threw |-> TRUE]
                 ELSE IF norm.str = h
                      THEN [a |-> classListAdd([a EXCEPT !.href = norm.str], Active),
                            threw |-> FALSE]
                      ELSE [a |-> [a EXCEPT !.href = norm.str], threw |-> FALSE]

\* the arrow function of lines 7-12, applied to anchor a with here = h
callback(a, h) ==
    LET href == getAttribute(a)
    IN  IF ~Truthy(href) THEN [a |-> a, threw |-> FALSE]
        ELSE LET norm == replace(href)
             IN  IF norm.threw THEN [a |-> a, threw |-> TRUE]
                 ELSE IF norm.str = h
                      THEN [a |-> classListAdd(a, Active), threw |-> FALSE]
                      ELSE [a |-> a, threw |-> FALSE]

RECURSIVE forEach(_, _, _)
\* NodeList.forEach from index i on: an exception in the callback ends the scan
forEach(as, h, i) ==
    IF i > Len(as) THEN [anchors |-> as, threw |-> FALSE]
    ELSE LET r == callback(as[i], h)
             next == [as EXCEPT ![i] = r.a]
         IN  IF r.threw THEN [anchors |-> next, threw |-> TRUE]
             ELSE forEach(next, h, i + 1)

\* markActiveNav clearing every active flag before it scans
markActiveNavReset(doc) ==
    LET cleared == [i \in 1..Len(doc.anchors) |->
                       [doc.anchors[i] EXCEPT !.classList = @ \ {Active}]]
        r == forEach(cleared, here(doc), 1)
    IN  [doc EXCEPT !.anchors = r.anchors, !.threw = doc.threw \/ r.threw]

markActiveNav(doc) ==
    LET r == forEach(doc.anchors, here(doc), 1)
    IN  [doc EXCEPT !.anchors = r.anchors, !.threw = doc.threw \/ r.threw]

-----------------------------------------------------------------------------
(* The script's top level (site.js lines 14-15) and later invocations     *)

Pages(paths, hrefs, classLists, maxAnchors) ==
    /\ pathname \in paths
    /\ anchors \in UNION {[1..n -> AnchorsOver(hrefs, classLists)] : n \in 0..maxAnchors}
    /\ threw = FALSE
    /\ yearCalls = 0
    /\ navCalls = 0
    /\ sinceChange = 0

\* the page as loaded, the script about to run line 14
Init ==
    /\ Pages(SamplePaths, SampleHrefs, ClassLists, MaxAnchors)
    /\ y \in YElements
    /\ now \in Dates
    /\ pc = "setYear"

\* pages of one navigation anchor, not yet flagged, over the deep paths and targets
InitDeep ==
    /\ Pages(DeepPaths, DeepHrefs, {{}}, 1)
    /\ y = NoElement
    /\ now \in {d \in Dates : d.year = 2026}
    /\ pc = "setYear"

\* the page as loaded, over two paths and two link targets, no anchor flagged yet
InitFair ==
    /\ Pages({Slash, Slash \o Blog \o Slash \o IndexHtml},
             {Slash \o IndexHtml, Slash \o Blog \o Slash}, {{}}, MaxAnchors)
    /\ y \in YElements
    /\ now \in {d \in Dates : d.year = 2026}
    /\ pc = "setYear"

\* a loaded page whose script has completed; the routines are invoked again
InitCalls ==
    /\ Pages(SamplePaths, SampleHrefs, ClassLists, MaxAnchors)
    /\ y \in {NoElement, Element(Empty)}
    /\ now \in {d \in Dates : d.year = 2026}
    /\ pc = "idle"

\* the effect of one setYear() call on the state
DoSetYear ==
    LET d == setYear(Doc)
    IN  /\ pathname' = d.pathname
        /\ anchors' = d.anchors
        /\ y' = d.y
        /\ now' = d.now
        /\ threw' = d.threw
        /\ yearCalls' = yearCalls + 1
        /\ UNCHANGED <<navCalls, sinceChange>>

\* the effect of one markActiveNav() call on the state
DoMarkActiveNav ==
    LET d == markActiveNav(Doc)
    IN  /\ pathname' = d.pathname
        /\ anchors' = d.anchors
        /\ y' = d.y
        /\ now' = d.now
        /\ threw' = d.threw
        /\ navCalls' = navCalls + 1
        /\ sinceChange' = sinceChange + 1
        /\ UNCHANGED yearCalls

\* line 14: setYear();  an uncaught exception ends the script
RunSetYear ==
    /\ pc = "setYear"
    /\ DoSetYear
    /\ pc' = IF threw' THEN "aborted" ELSE "markActiveNav"

\* line 15 left out: the script ends after setYear()
RunMarkActiveNavSkipped ==
    /\ pc = "markActiveNav"
    /\ pc' = "done"
    /\ UNCHANGED <<pathname, anchors, y, now, threw, yearCalls, navCalls, sinceChange>>

\* line 15: markActiveNav();
RunMarkActiveNav ==
    /\ pc = "markActiveNav"
    /\ DoMarkActiveNav
    /\ pc' = IF threw' THEN "aborted" ELSE "done"

Next == RunSetYear \/ RunMarkActiveNav

Spec == Init /\ [][Next]_vars

\* the script runs to completion: nothing suspends it
FairSpec == InitFair /\ [][Next]_vars /\ WF_vars(Next)

DeepSpec == InitDeep /\ [][Next]_vars

\* markActiveNav() called again on a loaded page
CallMarkActiveNav ==
    /\ pc = "idle"
    /\ navCalls < MaxCalls
    /\ DoMarkActiveNav
    /\ UNCHANGED pc

\* the current path changes (history.pushState, client-side navigation)
Navigate(p) ==
    /\ pc = "idle"
    /\ p # pathname
    /\ pathname' = p
    /\ sinceChange' = 0
    /\ UNCHANGED <<anchors, y, now, threw, pc, yearCalls, navCalls>>

\* anchor i's href attribute is set to h
SetHref(i, h) ==
    /\ pc = "idle"
    /\ anchors[i] # Anchor(h, anchors[i].classList)
    /\ anchors' = [anchors EXCEPT ![i] = Anchor(h, @.classList)]
    /\ sinceChange' = 0
    /\ UNCHANGED <<pathname, y, now, threw, pc, yearCalls, navCalls>>

\* anchor i's href attribute is removed
RemoveHref(i) ==
    /\ pc = "idle"
    /\ anchors[i].hasHref
    /\ anchors' = [anchors EXCEPT ![i] = NoHref(@.classList)]
    /\ sinceChange' = 0
    /\ UNCHANGED <<pathname, y, now, threw, pc, yearCalls, navCalls>>

NavigateSome == \E p \in SamplePaths : Navigate(p)
SetHrefSome == \E i \in 1..Len(anchors), h \in SampleHrefs : SetHref(i, h)
RemoveHrefSome == \E i \in 1..Len(anchors) : RemoveHref(i)

NextCalls == CallMarkActiveNav \/ NavigateSome \/ SetHrefSome \/ RemoveHrefSome

CallsSpec == InitCalls /\ [][NextCalls]_vars

-----------------------------------------------------------------------------
(* Vocabulary of the properties                                            *)

Flagged(a) == Active \in a.classList

NormOf(s) == replace(Str(s)).str

\* anchor a has a link target whose normalized form is the normalized path p
Matches(a, p) == a.hasHref /\ NormOf(a.href) = NormOf(p)

\* the current path and every link target present on the page
StatePaths == {pathname} \cup {anchors[i].href : i \in {j \in DOMAIN anchors : anchors[j].hasHref}}

\* p with the file name index.html cut off its end
ParentDirectory(p) == DropLast(p, Len(IndexHtml))

\* the last segment of p is the default document
EndsInDefaultDocument(p) == p = IndexHtml \/ EndsWith(p, Slash \o IndexHtml)

\* one of a, b is a directory path D (ending in a slash) and the other is D + index.html
SameDirectory(a, b) ==
    \/ EndsWith(b, Slash) /\ a = b \o IndexHtml
    \/ EndsWith(a, Slash) /\ b = a \o IndexHtml

FourDigits(n) ==
    <<DigitChar(n \div 1000), DigitChar((n \div 100) % 10),
      DigitChar((n \div 10) % 10), DigitChar(n % 10)>>

SameTargets ==
    /\ Len(anchors') = Len(anchors)
    /\ \A i \in DOMAIN anchors :
          anchors'[i].hasHref = anchors[i].hasHref /\ anchors'[i].href = anchors[i].href

-----------------------------------------------------------------------------
(* C1                                                                      *)

\* C1 as stated: after markActiveNav, whatever the flags were before, an anchor
\* carries the active flag exactly when its normalized target equals the
\* normalized current path.
C1_Original ==
    pc = "done" =>
        \A i \in DOMAIN anchors : Flagged(anchors[i]) <=> Matches(anchors[i], pathname)

\* C1 amended: a markActiveNav call leaves every anchor whose normalized target
\* equals the normalized current path flagged, and leaves the flag of every
\* other anchor (a prefix or an extension of the path included) as it was
\* before the call: an unflagged one stays unflagged.
C1_Amended ==
    [][pc = "markActiveNav" =>
          /\ Len(anchors') = Len(anchors)
          /\ \A i \in DOMAIN anchors :
                IF Matches(anchors[i], pathname)
                THEN Flagged(anchors'[i])
                ELSE Flagged(anchors'[i]) <=> Flagged(anchors[i])]_vars

C1_Witness ==
    /\ pc = "done"
    /\ pathname = Slash
    /\ anchors = <<Anchor(Slash \o Blog \o Slash, {}), Anchor(Slash \o IndexHtml, {Active})>>

-----------------------------------------------------------------------------
(* C2                                                                      *)

\* C2 as stated: normalization maps any path ending in the default document
\* index.html to its parent directory form, and markActiveNav flags an anchor
\* whose target and the current path are D and D + index.html.
C2_Original ==
    /\ \A p \in StatePaths : EndsInDefaultDocument(p) => NormOf(p) = ParentDirectory(p)
    /\ pc = "done" =>
          \A i \in DOMAIN anchors :
              anchors[i].hasHref /\ SameDirectory(anchors[i].href, pathname)
                  => Flagged(anchors[i])

\* C2 amended: normalization maps any path ending in /index.html (the default
\* document after a slash) to its parent directory form, so that for every
\* directory path D ending in a slash, D + index.html and D are equivalent:
\* markActiveNav flags an anchor whose target and the current path are D and
\* D + index.html, either way round.
C2_Amended ==
    /\ \A p \in StatePaths :
          EndsWith(p, Slash \o IndexHtml) => NormOf(p) = ParentDirectory(p)
    /\ pc = "done" =>
          \A i \in DOMAIN anchors :
              anchors[i].hasHref /\ SameDirectory(anchors[i].href, pathname)
                  => Flagged(anchors[i])

C2_Witness ==
    /\ pc = "done"
    /\ pathname = Slash \o Blog \o Slash \o IndexHtml
    /\ anchors = <<Anchor(Slash \o Blog \o Slash, {Active})>>

-----------------------------------------------------------------------------
(* C3                                                                      *)

\* C3: normalization is idempotent: for the current path and every link
\* target, paths holding index.html more than once included, normalizing the
\* normalized form returns it unchanged.
C3_Idempotent == \A p \in StatePaths : NormOf(NormOf(p)) = NormOf(p)

C3_Witness ==
    /\ pc = "done"
    /\ pathname = Slash \o Blog \o Slash \o IndexHtml \o Slash \o IndexHtml
    /\ anchors = <<Anchor(Slash \o Blog \o Slash \o IndexHtml \o Slash, {Active})>>

-----------------------------------------------------------------------------
(* C4                                                                      *)

\* C4: on a page with an anchor that has no href attribute, markActiveNav
\* leaves that anchor as it was, raises no error and completes, and every
\* other anchor, before and after it, is still flagged when it matches.
C4_SkipsMissingHref ==
    [][pc = "markActiveNav" /\ (\E i \in DOMAIN anchors : ~anchors[i].hasHref) =>
          /\ ~threw'
          /\ pc' = "done"
          /\ Len(anchors') = Len(anchors)
          /\ \A i \in DOMAIN anchors :
                IF ~anchors[i].hasHref
                THEN anchors'[i] = anchors[i]
                ELSE IF Matches(anchors[i], pathname)
                     THEN Flagged(anchors'[i])
                     ELSE anchors'[i] = anchors[i]]_vars

C4_Witness ==
    /\ pc = "done"
    /\ ~threw
    /\ pathname = Slash \o Blog \o Slash \o IndexHtml
    /\ anchors = <<NoHref({}), Anchor(Slash \o Blog \o Slash, {Active})>>

-----------------------------------------------------------------------------
(* C5                                                                      *)

\* C5: once setYear has run and the element with id 'y' exists, its text is
\* the four-digit calendar year of the current date, whatever it was before.
C5_YearText ==
    pc \in {"markActiveNav", "done"} /\ y.exists =>
        /\ Len(y.textContent) = 4
        /\ y.textContent = FourDigits(now.year)

C5_Witness ==
    /\ pc = "markActiveNav"
    /\ now.year = 1999
    /\ y = Element(<<"1", "9", "9", "9">>)

-----------------------------------------------------------------------------
(* C6                                                                      *)

\* C6: when the element with id 'y' does not exist, setYear changes nothing
\* of the page and raises no error, and the script goes on.
C6_NoElementNoMutation ==
    [][pc = "setYear" /\ ~y.exists =>
          /\ UNCHANGED <<pathname, anchors, y, now>>
          /\ ~threw'
          /\ pc' = "markActiveNav"]_vars

C6_Witness ==
    /\ pc = "markActiveNav"
    /\ yearCalls = 1
    /\ ~y.exists
    /\ ~threw
    /\ Len(anchors) = MaxAnchors

-----------------------------------------------------------------------------
(* C7                                                                      *)

\* C7: a markActiveNav call on a page that has not changed since the previous
\* markActiveNav call leaves every anchor, and so the flagged set, as the
\* previous call left it.
C7_Idempotent ==
    [][pc = "idle" /\ sinceChange >= 1 /\ navCalls' = navCalls + 1 =>
          anchors' = anchors /\ ~threw']_vars

C7_Witness ==
    /\ sinceChange = 2
    /\ pathname = Slash \o Blog \o Slash
    /\ anchors = <<Anchor(Slash \o Blog \o Slash \o IndexHtml, {Active}), Anchor(Slash, {})>>

-----------------------------------------------------------------------------
(* C8                                                                      *)

\* C8: no markActiveNav call removes an active flag, also after the current
\* path or a link target has changed: an anchor flagged before the call is
\* flagged after it.
C8_NeverRemoves ==
    [][navCalls' = navCalls + 1 =>
          /\ Len(anchors') = Len(anchors)
          /\ \A i \in DOMAIN anchors : Flagged(anchors[i]) => Flagged(anchors'[i])]_vars

C8_Witness ==
    /\ navCalls = 2
    /\ sinceChange = 1
    /\ pathname = Slash
    /\ anchors = <<Anchor(Slash \o Blog \o Slash, {Active}), Anchor(Slash, {Active})>>

-----------------------------------------------------------------------------
(* C9                                                                      *)

-----------------------------------------------------------------------------
(* C10                                                                     *)

CallCounts ==
    /\ pc = "setYear" => yearCalls = 0 /\ navCalls = 0
    /\ pc = "markActiveNav" => yearCalls = 1 /\ navCalls = 0
    /\ pc = "done" => yearCalls = 1 /\ navCalls = 1
    /\ pc # "aborted"
    /\ ~threw

\* C10: on script load setYear runs once, then markActiveNav runs once, no
\* error state is entered and the script reaches its end, for every page; with
\* no navigation anchors markActiveNav changes nothing.
C10_LoadSequence ==
    /\ []CallCounts
    /\ [][pc = "markActiveNav" /\ anchors = <<>> =>
             UNCHANGED <<pathname, anchors, y, now, threw>>]_vars
    /\ <>(pc = "done")

C10_Witness ==
    /\ pc = "done"
    /\ yearCalls = 1
    /\ navCalls = 1
    /\ anchors = <<>>
    /\ ~y.exists

====
